---- MODULE Spec2Model ----
(***************************************************************************)
(* Job lifecycle of the crawl queue: the crawl executor                    *)
(* (startWebScraperPipeline / runWebScraper / saveJob) and the admin       *)
(* handlers /shutdown and /unpause, run against the shared Bull queue      *)
(* store (job hashes, state lists, lock keys); the cluster primary that    *)
(* forks the worker processes; the routes clean-before-24h-complete-jobs   *)
(* and /serverHealthCheck/notify.                                          *)
(*                                                                         *)
(* Calls that are started without await (job.progress, saveJob,            *)
(* job.moveToFailed) become commands in flight on the worker's store       *)
(* connection; the store applies them one at a time.                       *)
(***************************************************************************)
EXTENDS Integers, Sequences, FiniteSets, TLC

\* ------------------------------------------------------------------ bounds
\* documents one run of the pipeline emits, in the lifecycle specification
MaxDocs == 1
\* documents one run emits in the single-run specification
MaxRunDocs == 3
\* documents one run emits in the progress-buffer specification
MaxBufDocs == 52
\* commands one worker may have in flight to the store
MaxInFlight == 2
\* records ever created under one job id (1 = the enqueued one)
MaxGen == 2
\* worker processes that exit
MaxExits == 4
\* milliseconds the clock advances while a request is served
MaxTicks == 2

\* ------------------------------------------------------- program constants
\* partialDocs.length > 50 / slice(-50)
ProgressCap == 50

\* 24 * 60 * 60 * 1000
DayMs == 24 * 60 * 60 * 1000
\* const batchSize = 10; const numberOfBatches = 9
batchSize == 10
numberOfBatches == 9
\* const treshold = 1; const timeout = 60000
treshold == 1
timeout == 60000
\* process.env.ENV === "local" ? 2 : os.cpus().length
numCPUs == 2

\* --------------------------------------------------------------- universes
Min(a, b) == IF a <= b THEN a ELSE b

JobIds == {1, 2}
\* worker processes; each has its own Queue instance, whose token is the
\* value written in the lock key of the jobs it processes
Workers == {"w1", "w2"}
\* the Queue instance of the process that serves the admin routes
ApiToken == "api"
NoLock == "none"
NoData == [url |-> <<>>, mode |-> "none", returnOnlyUrls |-> FALSE, team_id |-> 0]
\* field values: a field that was never written, JSON null, no failedReason
NoVal == <<[undefined |-> TRUE]>>
NullVal == <<[null |-> TRUE]>>
NoReason == "undefined"

\* job.data of the two enqueued jobs (WebScraperOptions)
JobData(j) ==
    IF j = 1
    THEN [url |-> <<"a">>, mode |-> "crawl", returnOnlyUrls |-> FALSE, team_id |-> 1]
    ELSE [url |-> <<"a", ",", "b">>, mode |-> "single_urls", returnOnlyUrls |-> TRUE,
          team_id |-> 2]

\* Document.content values the pipeline produces: text, whitespace only
Contents == {<<"x">>, <<" ">>}

VARIABLES
    \* ---- the store
    rec,        \* job id -> the job hash (exists = FALSE: no key)
    lists,      \* job id -> the state lists/sets the id is in
    lock,       \* job id -> value of the lock key, NoLock when absent
    paused,     \* the queue is paused (wait list parked)
    gens,       \* job id -> records created under the id so far
    \* ---- configuration of the build
    useDb,          \* process.env.USE_DB_AUTHENTICATION === "true"
    checksActive,   \* the store's finish script rejects a job that is not active
    \* ---- workers
    pc,         \* worker -> position in runWebScraper
    cur,        \* worker -> [id, gen] of the job it runs
    docs,       \* worker -> documents the pipeline has produced
    partialDocs,\* worker -> the closure variable of startWebScraperPipeline
    filteredDocs,
    chan,       \* worker -> commands sent to the store, not yet applied
    save,       \* worker -> position of the un-awaited saveJob
    ret,        \* worker -> value runWebScraper returned
    pipe,       \* worker -> state of the getDocuments promise
    billCalls,  \* worker -> calls of billTeam in this run
    called,     \* worker -> the callbacks invoked ("onSuccess", "onError"), in order
    issued,     \* worker -> commands sent in this run, in order
    applied,    \* worker -> commands of this run the store has applied, in order
    billed,     \* worker -> the credits argument of each billTeam call, in order
    \* ---- the /unpause handler
    hpc,        \* position in the handler
    jobs,       \* the array returned by wsq.getActive()
    hstep,      \* job id -> position of its async callback in jobs.map
    resub,      \* the job ids the handler has passed to addBulk
    res,        \* the response the handler sent last
    \* ---- the cluster primary
    live,       \* worker processes alive
    exitEvents, \* 'exit' events emitted, not yet handled
    exited,     \* ghost: every exit so far, in order
    \* ---- the clock and GET clean-before-24h-complete-jobs
    now,        \* Date.now()
    cpc,        \* position in the handler
    before24hJobs,  \* the jobs still to be removed, as read by getJobs
    count,
    cleanAt,    \* Date.now() as the filter read it
    cleaned,    \* ghost: the records the handler removed, as they were
    \* ---- GET /serverHealthCheck/notify
    slackUrl,   \* process.env.SLACK_WEBHOOK_URL is set
    npc,        \* position in the handler and its deferred check
    nres,       \* the response body sent for the request
    counts,     \* the waiting counts the checks have read, in order
    alert       \* the POST to the Slack webhook

vars == <<rec, lists, lock, paused, gens, useDb, checksActive, pc, cur, docs, pipe,
          partialDocs, filteredDocs, chan, save, ret, billCalls, called, issued,
          applied, hpc, jobs, hstep, resub, res, live, exitEvents, exited,
          now, cpc, before24hJobs, count, cleanAt, cleaned,
          slackUrl, npc, nres, counts, alert, billed>>

storeVars == <<rec, lists, lock, paused, gens>>
cfgVars == <<useDb, checksActive>>
workerVars == <<pc, cur, docs, pipe, partialDocs, filteredDocs, chan, save, ret,
                billCalls, called, issued, applied>>
handlerVars == <<hpc, jobs, hstep, resub, res>>
clusterVars == <<live, exitEvents, exited>>
cleanVars == <<now, cpc, before24hJobs, count, cleanAt, cleaned>>
notifyVars == <<slackUrl, npc, nres, counts, alert>>
ledgerVars == <<billed>>
sideVars == <<clusterVars, cleanVars, notifyVars>>
otherVars == <<sideVars, ledgerVars>>

\* ------------------------------------------------------------ the job hash
NoRec ==
    [exists |-> FALSE, data |-> NoData, gen |-> 0, finishedOn |-> 0,
     progress |-> NoVal, pgen |-> 0,
     returnvalue |-> NoVal, failedReason |-> NoReason, rgen |-> 0]

NewRec(d, g) == [NoRec EXCEPT !.exists = TRUE, !.data = d, !.gen = g]

\* job.getState(): the first list the id is found in
getState(j) ==
    IF "completed" \in lists[j] THEN "completed"
    ELSE IF "failed" \in lists[j] THEN "failed"
    ELSE IF "active" \in lists[j] THEN "active"
    ELSE IF "wait" \in lists[j] THEN "waiting"
    ELSE "none"

\* ------------------------------------------------- store scripts (Bull)
\* the three keyed structures one script reads and writes
St == [rec |-> rec, lists |-> lists, lock |-> lock]

\* job.progress(value): HSET <job key> progress value. No lock or existence
\* test; on a missing key the HSET creates a hash that holds only progress.
updateProgress(s, j, val, g) ==
    [s EXCEPT !.rec[j] = [@ EXCEPT !.exists = TRUE, !.progress = val, !.pgen = g]]

\* Job._saveAttempt inside job.moveToFailed: HMSET <job key> failedReason msg,
\* queued ahead of the finish script in the same MULTI, without any test.
saveAttempt(s, j, msg, g) ==
    [s EXCEPT !.rec[j] = [@ EXCEPT !.exists = TRUE, !.failedReason = msg, !.rgen = g]]

\* the finish script behind moveToCompleted / moveToFailed:
\*   -1 the job key is missing; -2 the lock key does not hold the caller's
\*   token; the lock is then deleted; -3 the id is not in the active list
\*   (builds whose script tests it); else the id moves to `target` and `field`
\*   is written.
moveToFinished(s, j, tok, target, field, val, g) ==
    IF ~s.rec[j].exists THEN [code |-> -1, st |-> s]
    ELSE IF s.lock[j] # tok THEN [code |-> -2, st |-> s]
    ELSE LET s1 == [s EXCEPT !.lock[j] = NoLock] IN
         IF checksActive /\ "active" \notin s.lists[j]
         THEN [code |-> -3, st |-> s1]
         ELSE [code |-> 0,
               st |-> [s1 EXCEPT !.lists[j] = (@ \ {"active"}) \cup {target},
                                 !.rec[j] = [@ EXCEPT ![field] = val, !.rgen = g,
                                                      !.finishedOn = now]]]

\* job.moveToCompleted(returnValue)
moveToCompleted(s, j, tok, val, g) ==
    moveToFinished(s, j, tok, "completed", "returnvalue", val, g)

\* job.moveToFailed({message}): attempts defaults to 1, so no retry
moveToFailed(s, j, tok, msg, g) ==
    moveToFinished(saveAttempt(s, j, msg, g), j, tok, "failed", "failedReason", msg, g)

\* job.takeLock(): SET <lock key> token NX; resolves false when the key exists
takeLock(s, j, tok) ==
    IF s.lock[j] = NoLock THEN [s EXCEPT !.lock[j] = tok] ELSE s

\* wsq.client.del(lockKey)
delLock(s, j) == [s EXCEPT !.lock[j] = NoLock]

\* job.remove(): refused (code 0, the call throws) while a lock key exists
removeJob(s, j) ==
    IF s.lock[j] # NoLock THEN [code |-> 0, st |-> s]
    ELSE [code |-> 1,
          st |-> [s EXCEPT !.rec[j] = NoRec, !.lists[j] = {}]]

\* one entry of addBulk with opts.jobId = j: a no-op when the job key exists
addJob(s, g, j, d) ==
    IF s.rec[j].exists THEN [st |-> s, gens |-> g]
    ELSE [st |-> [s EXCEPT !.rec[j] = NewRec(d, g[j] + 1), !.lists[j] = {"wait"}],
          gens |-> [g EXCEPT ![j] = @ + 1]]

\* ------------------------------------------------------------- documents
\* String.prototype.trim on a content given as a sequence of characters
IsSpace(ch) == ch = " "

RECURSIVE TrimLeft(_)
TrimLeft(c) ==
    IF c # <<>> /\ IsSpace(Head(c)) THEN TrimLeft(Tail(c)) ELSE c

RECURSIVE TrimRight(_)
TrimRight(c) ==
    IF c # <<>> /\ IsSpace(c[Len(c)]) THEN TrimRight(SubSeq(c, 1, Len(c) - 1)) ELSE c

Trim(c) == TrimRight(TrimLeft(c))

NoContent == <<"no currentDocument">>

\* String.prototype.split(",") on a string given as a sequence of characters
RECURSIVE Split(_)
Split(u) ==
    IF \A i \in 1..Len(u) : u[i] # "," THEN <<u>>
    ELSE LET k == CHOOSE i \in 1..Len(u) : u[i] = "," /\ \A h \in 1..(i - 1) : u[h] # ","
         IN <<SubSeq(u, 1, k - 1)>> \o Split(SubSeq(u, k + 1, Len(u)))

\* the urls option of provider.setOptions
Urls(data) == IF data.mode = "crawl" THEN <<data.url>> ELSE Split(data.url)

\* metadata.sourceURL of the n-th document: in crawl mode a page under the
\* seed, else the n-th url
SourceURL(data, n) ==
    IF data.mode = "crawl" THEN data.url \o <<"/", ToString(n)>> ELSE Urls(data)[n]

\* the documents one run can produce: any number in crawl mode, else at most
\* one per url
DocLimit(data, max) == IF data.mode = "crawl" THEN max ELSE Min(max, Len(Urls(data)))

\* a document with its content and metadata.sourceURL
Document(u, c) == [content |-> c, sourceURL |-> u]

\* docs.map(doc => { if (doc.metadata.sourceURL) return { url } })
UrlsOf(ds) == [i \in 1..Len(ds) |-> [url |-> ds[i].sourceURL]]

\* docs.filter(doc => doc.content.trim().length > 0)
RECURSIVE NonEmptyDocs(_)
NonEmptyDocs(ds) ==
    IF ds = <<>> THEN <<>>
    ELSE IF Len(Trim(Head(ds).content)) > 0
         THEN <<Head(ds)>> \o NonEmptyDocs(Tail(ds))
         ELSE NonEmptyDocs(Tail(ds))

\* FilterDocs keeping the documents without text
FilterDocsKeepAll(ds, returnOnlyUrls) ==
    IF returnOnlyUrls THEN UrlsOf(ds) ELSE ds

\* filteredDocs of runWebScraper
FilterDocs(ds, returnOnlyUrls) ==
    IF returnOnlyUrls THEN UrlsOf(ds) ELSE NonEmptyDocs(ds)

\* Array.prototype.slice(-n)
SliceLast(s, n) ==
    IF Len(s) <= n THEN s ELSE SubSeq(s, Len(s) - n + 1, Len(s))

\* PushPartial without the eviction
PushPartialNoEvict(pd, d) == Append(pd, d)

\* the body of inProgress after the currentDocument test:
\* push, then keep the last 50
PushPartial(pd, d) ==
    LET pushed == Append(pd, d) IN
    IF Len(pushed) > ProgressCap THEN SliceLast(pushed, ProgressCap) ELSE pushed

\* ------------------------------------------------------------ the workers
NoRet == [success |-> FALSE, message |-> "not returned", docs |-> <<>>]

\* callback cb has been invoked in worker w's run
Called(w, cb) == \E i \in 1..Len(called[w]) : called[w][i] = cb

\* a command on worker w's connection; gen and n say which run sent it and
\* after how many documents
Cmd(w, op, val) ==
    [op |-> op, id |-> cur[w].id, gen |-> cur[w].gen, n |-> Len(docs[w]), val |-> val]

Tag(c) == <<c.op, c.n>>

\* an un-awaited store call: the command is written to the connection now
Send(w, c) ==
    /\ chan' = [chan EXCEPT ![w] = Append(@, c)]
    /\ issued' = [issued EXCEPT ![w] = Append(@, Tag(c))]

\* the queue consumer hands a waiting job to an idle worker: the id moves
\* from wait to active and the lock key is set to the worker's token, in one
\* script; a paused queue hands out nothing
Dispatch(w) ==
    /\ pc[w] = "idle"
    /\ ~paused
    /\ \E j \in JobIds :
        /\ "wait" \in lists[j]
        /\ lists' = [lists EXCEPT ![j] = (@ \ {"wait"}) \cup {"active"}]
        /\ lock' = [lock EXCEPT ![j] = w]
        /\ cur' = [cur EXCEPT ![w] = [id |-> j, gen |-> rec[j].gen, data |-> rec[j].data]]
    /\ pc' = [pc EXCEPT ![w] = "crawl"]
    /\ pipe' = [pipe EXCEPT ![w] = "running"]
    /\ UNCHANGED <<rec, paused, gens, cfgVars, otherVars, docs, partialDocs, filteredDocs, chan,
                   save, ret, billCalls, called, issued, applied, handlerVars>>

\* inProgress(progress) with progress.currentDocument = d, called by the
\* pipeline while getDocuments runs
inProgress(w, d) ==
    LET pd == PushPartial(partialDocs[w], d) IN
    /\ partialDocs' = [partialDocs EXCEPT ![w] = pd]
    /\ Send(w, [Cmd(w, "progress", pd) EXCEPT !.n = Len(docs[w]) + 1])

\* the pipeline reports progress: with its next document (content from C, at
\* most max per run) as currentDocument, or without one
PipelineEmits(w, C, max) ==
    /\ pc[w] = "crawl"
    /\ Len(docs[w]) < DocLimit(cur[w].data, max)
    /\ Len(chan[w]) < MaxInFlight
    /\ \E c \in C \cup {NoContent} :
        IF c = NoContent
        THEN \* a progress event without currentDocument: inProgress does nothing
             UNCHANGED <<docs, partialDocs, chan, issued>>
        ELSE LET d == Document(SourceURL(cur[w].data, Len(docs[w]) + 1), c) IN
             /\ docs' = [docs EXCEPT ![w] = Append(@, d)]
             /\ inProgress(w, d)
    /\ UNCHANGED <<pipe, storeVars, cfgVars, otherVars, pc, cur, filteredDocs, save, ret, billCalls,
                   called, applied, handlerVars>>

\* onError(error): job.moveToFailed(error), not awaited
onError(w, msg) ==
    /\ called' = [called EXCEPT ![w] = Append(@, "onError")]
    /\ Send(w, Cmd(w, "failed", msg))

\* saveJob(job, result), not awaited: with USE_DB_AUTHENTICATION it first
\* awaits the docs update, else it sends moveToCompleted(result)
saveJob(w, result) ==
    IF useDb
    THEN /\ save' = [save EXCEPT ![w] = "db"]
         /\ UNCHANGED <<chan, issued>>
    ELSE /\ save' = [save EXCEPT ![w] = "done"]
         /\ Send(w, Cmd(w, "completed", result))

\* onSuccess followed by the catch block's onError
onSuccessThenError(w, result) ==
    /\ called' = [called EXCEPT ![w] = @ \o <<"onSuccess", "onError">>]
    /\ saveJob(w, result)

\* onSuccess(result)
onSuccess(w, result) ==
    /\ called' = [called EXCEPT ![w] = Append(@, "onSuccess")]
    /\ saveJob(w, result)

\* provider.setOptions or provider.getDocuments throws: the catch block
PipelineThrows(w) ==
    /\ pc[w] = "crawl"
    /\ Len(chan[w]) < MaxInFlight
    /\ onError(w, "pipeline error")
    /\ ret' = [ret EXCEPT ![w] =
                 [success |-> FALSE, message |-> "pipeline error", docs |-> <<>>]]
    /\ pc' = [pc EXCEPT ![w] = "returned"]
    /\ pipe' = [pipe EXCEPT ![w] = "threw"]
    /\ UNCHANGED <<storeVars, cfgVars, otherVars, cur, docs, partialDocs, filteredDocs, save,
                   billCalls, applied, handlerVars>>

\* PipelineResolves with an empty crawl thrown as an error
PipelineResolvesEmptyFails(w) ==
    /\ pc[w] = "crawl"
    /\ Len(chan[w]) < MaxInFlight
    /\ pipe' = [pipe EXCEPT ![w] = "resolved"]
    /\ IF Len(docs[w]) = 0
       THEN /\ onError(w, "No pages found")
            /\ ret' = [ret EXCEPT ![w] =
                        [success |-> FALSE, message |-> "No pages found", docs |-> <<>>]]
            /\ pc' = [pc EXCEPT ![w] = "returned"]
            /\ UNCHANGED filteredDocs
       ELSE /\ filteredDocs' = [filteredDocs EXCEPT ![w] =
                                 FilterDocs(docs[w], cur[w].data.returnOnlyUrls)]
            /\ pc' = [pc EXCEPT ![w] = "bill"]
            /\ UNCHANGED <<ret, called, chan, issued>>
    /\ UNCHANGED <<storeVars, cfgVars, otherVars, cur, docs, partialDocs, save, billCalls,
                   applied, handlerVars>>

\* getDocuments resolves with the documents produced: the zero-document
\* return, else the filter and the call of billTeam
PipelineResolves(w) ==
    /\ pc[w] = "crawl"
    /\ IF Len(docs[w]) = 0
       THEN /\ ret' = [ret EXCEPT ![w] =
                        [success |-> TRUE, message |-> "No pages found", docs |-> <<>>]]
            /\ pc' = [pc EXCEPT ![w] = "returned"]
            /\ UNCHANGED filteredDocs
       ELSE /\ filteredDocs' = [filteredDocs EXCEPT ![w] =
                                 FilterDocs(docs[w], cur[w].data.returnOnlyUrls)]
            /\ pc' = [pc EXCEPT ![w] = "bill"]
            /\ UNCHANGED ret
    /\ pipe' = [pipe EXCEPT ![w] = "resolved"]
    /\ UNCHANGED <<storeVars, cfgVars, otherVars, cur, docs, partialDocs, chan, save, billCalls,
                   called, issued, applied, handlerVars>>

\* billTeam(team_id, filteredDocs.length) resolves with success: true
billTeamOk(w) ==
    /\ pc[w] = "bill"
    /\ Len(chan[w]) < MaxInFlight
    /\ billCalls' = [billCalls EXCEPT ![w] = @ + 1]
    /\ billed' = [billed EXCEPT ![w] = Append(@, Len(filteredDocs[w]))]
    /\ onSuccess(w, filteredDocs[w])
    /\ ret' = [ret EXCEPT ![w] =
                 [success |-> TRUE, message |-> "", docs |-> filteredDocs[w]]]
    /\ pc' = [pc EXCEPT ![w] = "returned"]
    /\ UNCHANGED <<pipe, storeVars, cfgVars, sideVars, cur, docs, partialDocs, filteredDocs, applied,
                   handlerVars>>

\* billTeamRejects with the charge tried again after a rejection
billTeamRejectsRetry(w) ==
    /\ pc[w] = "bill"
    /\ billCalls[w] < 2
    /\ billCalls' = [billCalls EXCEPT ![w] = @ + 1]
    /\ billed' = [billed EXCEPT ![w] = Append(@, Len(filteredDocs[w]))]
    /\ UNCHANGED <<pipe, storeVars, cfgVars, sideVars, pc, ret, cur, docs, partialDocs, filteredDocs,
                   chan, save, called, issued, applied, handlerVars>>

\* billTeam resolves with success: false
billTeamRejects(w) ==
    /\ pc[w] = "bill"
    /\ billCalls' = [billCalls EXCEPT ![w] = @ + 1]
    /\ billed' = [billed EXCEPT ![w] = Append(@, Len(filteredDocs[w]))]
    /\ ret' = [ret EXCEPT ![w] =
                 [success |-> FALSE,
                  message |-> "Failed to bill team, no subscription was found",
                  docs |-> <<>>]]
    /\ pc' = [pc EXCEPT ![w] = "returned"]
    /\ UNCHANGED <<pipe, storeVars, cfgVars, sideVars, cur, docs, partialDocs, filteredDocs, chan, save,
                   called, issued, applied, handlerVars>>

\* billTeam throws: the catch block
billTeamThrows(w) ==
    /\ pc[w] = "bill"
    /\ Len(chan[w]) < MaxInFlight
    /\ billCalls' = [billCalls EXCEPT ![w] = @ + 1]
    /\ billed' = [billed EXCEPT ![w] = Append(@, Len(filteredDocs[w]))]
    /\ onError(w, "billing error")
    /\ ret' = [ret EXCEPT ![w] =
                 [success |-> FALSE, message |-> "billing error", docs |-> <<>>]]
    /\ pc' = [pc EXCEPT ![w] = "returned"]
    /\ UNCHANGED <<pipe, storeVars, cfgVars, sideVars, cur, docs, partialDocs, filteredDocs, save,
                   applied, handlerVars>>

\* saveJobAfterUpdate moving the job to failed when the update fails
saveJobAfterUpdateFailsJob(w) ==
    /\ save[w] = "db"
    /\ Len(chan[w]) < MaxInFlight
    /\ \/ /\ save' = [save EXCEPT ![w] = "update failed"]
          /\ Send(w, Cmd(w, "failed", "update failed"))
       \/ /\ save' = [save EXCEPT ![w] = "done"]
          /\ Send(w, Cmd(w, "completed", NullVal))
    /\ UNCHANGED <<pipe, storeVars, cfgVars, otherVars, pc, cur, docs, partialDocs,
                   filteredDocs, ret, billCalls, called, applied, handlerVars>>

\* saveJob resumes after the docs update: on error it throws into the outer
\* catch (logged); else it sends moveToCompleted(null)
saveJobAfterUpdate(w) ==
    /\ save[w] = "db"
    /\ Len(chan[w]) < MaxInFlight
    /\ \/ /\ save' = [save EXCEPT ![w] = "update failed"]
          /\ UNCHANGED <<chan, issued>>
       \/ /\ save' = [save EXCEPT ![w] = "done"]
          /\ Send(w, Cmd(w, "completed", NullVal))
    /\ UNCHANGED <<pipe, storeVars, cfgVars, otherVars, pc, cur, docs, partialDocs, filteredDocs, ret,
                   billCalls, called, applied, handlerVars>>

\* what the store does with command c of worker w; a negative code rejects
\* the caller's promise and changes nothing on the worker
Execute(s, w, c) ==
    CASE c.op = "progress" -> updateProgress(s, c.id, c.val, c.gen)
      [] c.op = "completed" -> moveToCompleted(s, c.id, w, c.val, c.gen).st
      [] c.op = "failed" -> moveToFailed(s, c.id, w, c.val, c.gen).st

\* NextCmd taking the newest command first
NextCmdNewest(w) == Len(chan[w])

\* the command the store takes next from worker w's connection: the oldest
NextCmd(w) == 1

RemoveAt(s, i) == SubSeq(s, 1, i - 1) \o SubSeq(s, i + 1, Len(s))

\* the store applies one command of worker w
Apply(w) ==
    /\ chan[w] # <<>>
    /\ LET i == NextCmd(w)
           c == chan[w][i]
           s == Execute(St, w, c)
       IN /\ rec' = s.rec
          /\ lists' = s.lists
          /\ lock' = s.lock
          /\ chan' = [chan EXCEPT ![w] = RemoveAt(@, i)]
          /\ applied' = [applied EXCEPT ![w] = Append(@, Tag(c))]
    /\ UNCHANGED <<pipe, paused, gens, cfgVars, otherVars, pc, cur, docs, partialDocs, filteredDocs, save,
                   ret, billCalls, called, issued, handlerVars>>

\* ------------------------------------------------------- the admin routes
\* POST /shutdown: getWebScraperQueue().pause(false, true); jobs that are
\* active keep running
Shutdown ==
    /\ ~paused
    /\ paused' = TRUE
    /\ UNCHANGED <<rec, lists, lock, gens, cfgVars, otherVars, workerVars, handlerVars>>

\* no response sent
NoRes == [status |-> 0, body |-> "none"]

\* wsq.getActive(): the jobs in the active list, each with the data read
\* from its hash
getActive == { [id |-> j, gen |-> rec[j].gen, data |-> rec[j].data] :
               j \in { k \in JobIds : "active" \in lists[k] } }

Listed == { x.id : x \in jobs }

\* POST /unpause, up to the start of jobs.map
UnpauseGetActive ==
    /\ hpc = "idle"
    /\ \A x \in getActive : gens[x.id] < MaxGen
    /\ jobs' = getActive
    /\ resub' = {}
    /\ res' = NoRes
    /\ IF getActive = {}
       THEN /\ hpc' = "resume"
            /\ UNCHANGED hstep
       ELSE /\ hpc' = "reclaim"
            /\ hstep' = [j \in JobIds |->
                           IF \E x \in getActive : x.id = j THEN "del" ELSE "none"]
    /\ UNCHANGED <<storeVars, cfgVars, otherVars, workerVars>>

\* await wsq.client.del(await x.lockKey())
UnpauseDelLock(j) ==
    /\ hpc = "reclaim"
    /\ hstep[j] = "del"
    /\ lock' = delLock(St, j).lock
    /\ hstep' = [hstep EXCEPT ![j] = "takeLock"]
    /\ UNCHANGED <<rec, lists, paused, gens, cfgVars, otherVars, workerVars, hpc, jobs, resub, res>>

\* await x.takeLock()
UnpauseTakeLock(j) ==
    /\ hpc = "reclaim"
    /\ hstep[j] = "takeLock"
    /\ lock' = takeLock(St, j, ApiToken).lock
    /\ hstep' = [hstep EXCEPT ![j] = "moveToFailed"]
    /\ UNCHANGED <<rec, lists, paused, gens, cfgVars, otherVars, workerVars, hpc, jobs, resub, res>>

\* await x.moveToFailed({ message: "interrupted" }); a negative code throws
\* into the callback's catch, which skips x.remove()
UnpauseMoveToFailed(j) ==
    /\ hpc = "reclaim"
    /\ hstep[j] = "moveToFailed"
    /\ LET x == CHOOSE y \in jobs : y.id = j
           r == moveToFailed(St, j, ApiToken, "interrupted", x.gen)
       IN /\ rec' = r.st.rec
          /\ lists' = r.st.lists
          /\ lock' = r.st.lock
          /\ hstep' = [hstep EXCEPT ![j] = IF r.code < 0 THEN "threw" ELSE "remove"]
    /\ UNCHANGED <<paused, gens, cfgVars, otherVars, workerVars, hpc, jobs, resub, res>>

\* await x.remove(); a refusal throws into the callback's catch
UnpauseRemove(j) ==
    /\ hpc = "reclaim"
    /\ hstep[j] = "remove"
    /\ LET r == removeJob(St, j)
       IN /\ rec' = r.st.rec
          /\ lists' = r.st.lists
          /\ lock' = r.st.lock
          /\ hstep' = [hstep EXCEPT ![j] = IF r.code = 0 THEN "threw" ELSE "removed"]
    /\ UNCHANGED <<paused, gens, cfgVars, otherVars, workerVars, hpc, jobs, resub, res>>

\* addBulk over a set of listed jobs, one addJob each
RECURSIVE addBulk(_, _, _)
addBulk(s, g, xs) ==
    IF xs = {} THEN [st |-> s, gens |-> g]
    ELSE LET x == CHOOSE y \in xs : \A z \in xs : y.id <= z.id
             r == addJob(s, g, x.id, x.data)
         IN addBulk(r.st, r.gens, xs \ {x})

\* every callback of jobs.map has resolved, so Promise.all has
Settled == \A j \in Listed : hstep[j] \in {"removed", "threw"}

\* BulkArg holding only the jobs whose callback removed the old record
BulkArgRemovedOnly == { x \in jobs : hstep[x.id] = "removed" }

\* jobs.map(x => ({ data: x.data, opts: { jobId: x.id } })): every listed job
BulkArg == jobs

\* Promise.all has settled: await wsq.addBulk(jobs.map(...))
UnpauseAddBulk ==
    /\ hpc = "reclaim"
    /\ Settled
    /\ LET xs == BulkArg
           r == addBulk(St, gens, xs)
       IN /\ rec' = r.st.rec
          /\ lists' = r.st.lists
          /\ lock' = r.st.lock
          /\ gens' = r.gens
          /\ resub' = { x.id : x \in xs }
    /\ hpc' = "resume"
    /\ UNCHANGED <<paused, cfgVars, otherVars, workerVars, jobs, hstep, res>>

\* UnpauseResume not waiting for Promise.all and addBulk
UnpauseResumeEarly ==
    /\ hpc \in {"reclaim", "resume"}
    /\ paused' = FALSE
    /\ hpc' = IF hpc = "resume" THEN "respond" ELSE hpc
    /\ UNCHANGED <<rec, lists, lock, gens, cfgVars, otherVars, workerVars, jobs, hstep,
                   resub, res>>

\* await getWebScraperQueue().resume(false)
UnpauseResume ==
    /\ hpc = "resume"
    /\ paused' = FALSE
    /\ hpc' = "respond"
    /\ UNCHANGED <<rec, lists, lock, gens, cfgVars, otherVars, workerVars, jobs, hstep, resub, res>>

\* res.json({ ok: true })
UnpauseRespond ==
    /\ hpc = "respond"
    /\ res' = [status |-> 200, body |-> "ok"]
    /\ hpc' = "idle"
    /\ jobs' = {}
    /\ hstep' = [j \in JobIds |-> "none"]
    /\ resub' = {}
    /\ UNCHANGED <<storeVars, cfgVars, otherVars, workerVars>>

\* ---- calls of the handler that reject
\* wsq.getActive() rejects: the outer catch
UnpauseGetActiveThrows ==
    /\ hpc = "idle"
    /\ hpc' = "catch"
    /\ res' = NoRes
    /\ UNCHANGED <<storeVars, cfgVars, otherVars, workerVars, jobs, hstep, resub>>

\* UnpauseCallbackThrows without the callback's try/catch: Promise.all
\* rejects into the outer catch
UnpauseCallbackThrowsAborts(j) ==
    /\ hpc = "reclaim"
    /\ hstep[j] \in {"del", "takeLock", "moveToFailed", "remove"}
    /\ hstep' = [hstep EXCEPT ![j] = "threw"]
    /\ hpc' = "catch"
    /\ UNCHANGED <<storeVars, cfgVars, otherVars, workerVars, jobs, resub, res>>

\* one of the four awaited calls of x's callback rejects before it reaches
\* the store: the callback's catch logs it and the callback resolves
UnpauseCallbackThrows(j) ==
    /\ hpc = "reclaim"
    /\ hstep[j] \in {"del", "takeLock", "moveToFailed", "remove"}
    /\ hstep' = [hstep EXCEPT ![j] = "threw"]
    /\ UNCHANGED <<storeVars, cfgVars, otherVars, workerVars, hpc, jobs, resub, res>>

\* UnpauseAddBulkThrows with the resume in a finally block
UnpauseAddBulkThrowsResumes ==
    /\ hpc = "reclaim"
    /\ Settled
    /\ resub' = { x.id : x \in BulkArg }
    /\ hpc' = "catch"
    /\ paused' = FALSE
    /\ UNCHANGED <<rec, lists, lock, gens, cfgVars, otherVars, workerVars, jobs, hstep, res>>

\* wsq.addBulk(...) rejects and adds nothing: the outer catch
UnpauseAddBulkThrows ==
    /\ hpc = "reclaim"
    /\ Settled
    /\ resub' = { x.id : x \in BulkArg }
    /\ hpc' = "catch"
    /\ UNCHANGED <<storeVars, cfgVars, otherVars, workerVars, jobs, hstep, res>>

\* getWebScraperQueue().resume(false) rejects: the outer catch
UnpauseResumeThrows ==
    /\ hpc = "resume"
    /\ hpc' = "catch"
    /\ UNCHANGED <<storeVars, cfgVars, otherVars, workerVars, jobs, hstep, resub, res>>

\* res.status(500).json({ error: error.message })
UnpauseRespondError ==
    /\ hpc = "catch"
    /\ res' = [status |-> 500, body |-> "error"]
    /\ hpc' = "idle"
    /\ jobs' = {}
    /\ hstep' = [j \in JobIds |-> "none"]
    /\ resub' = {}
    /\ UNCHANGED <<storeVars, cfgVars, otherVars, workerVars>>

\* ---------------------------------------------------- the cluster primary
\* the (code, signal) pairs a worker process can end with: process.exit(0),
\* an uncaught exception (code 1), or a signal, for which code is null
ExitCauses ==
    { [hasCode |-> TRUE, code |-> 0, signal |-> "null"],
      [hasCode |-> TRUE, code |-> 1, signal |-> "null"],
      [hasCode |-> FALSE, code |-> 0, signal |-> "SIGKILL"] }

\* a worker process ends; the primary is sent 'exit'
WorkerExits(e) ==
    /\ live > 0
    /\ Len(exited) < MaxExits
    /\ live' = live - 1
    /\ exitEvents' = Append(exitEvents, e)
    /\ exited' = Append(exited, e)
    /\ UNCHANGED <<storeVars, cfgVars, workerVars, ledgerVars, handlerVars, cleanVars, notifyVars>>

\* cluster.on("exit", (worker, code, signal) => { if (code !== null) fork })
OnExit ==
    /\ exitEvents # <<>>
    /\ exitEvents' = Tail(exitEvents)
    /\ live' = IF Head(exitEvents).hasCode THEN live + 1 ELSE live
    /\ UNCHANGED <<storeVars, cfgVars, workerVars, ledgerVars, handlerVars, exited, cleanVars,
                   notifyVars>>

\* ----------------------------------- GET clean-before-24h-complete-jobs
\* the clock when the model starts
StartTime == 2 * DayMs

\* a millisecond passes
Tick ==
    /\ now < StartTime + MaxTicks
    /\ now' = now + 1
    /\ UNCHANGED <<storeVars, cfgVars, workerVars, ledgerVars, handlerVars, clusterVars, notifyVars,
                   cpc, before24hJobs, count, cleanAt, cleaned>>

\* the completed set in ascending order of finishedOn (ties by id)
RECURSIVE SortByFinishedOn(_)
SortByFinishedOn(S) ==
    IF S = {} THEN <<>>
    ELSE LET j == CHOOSE x \in S : \A y \in S :
                    \/ rec[x].finishedOn < rec[y].finishedOn
                    \/ rec[x].finishedOn = rec[y].finishedOn /\ x <= y
         IN <<j>> \o SortByFinishedOn(S \ {j})

\* queue.getJobs(["completed"], start, end, true): the entries at positions
\* start..end, both included, each read into a Job object
getJobs(start, end) ==
    LET all == SortByFinishedOn({ j \in JobIds : "completed" \in lists[j] })
        ids == SubSeq(all, start + 1, Min(end + 1, Len(all)))
    IN [i \in 1..Len(ids) |-> [id |-> ids[i], finishedOn |-> rec[ids[i]].finishedOn]]

\* (await Promise.all(completedJobsPromises)).flat()
RECURSIVE completedJobs(_)
completedJobs(i) ==
    IF i >= numberOfBatches THEN <<>>
    ELSE getJobs(i * batchSize, i * batchSize + batchSize) \o completedJobs(i + 1)

\* IsOlder with the job of exactly 24 hours taken too
IsOlderOrEqual(job, t) == job.finishedOn <= t - DayMs

\* job.finishedOn < Date.now() - 24 * 60 * 60 * 1000
IsOlder(job, t) == job.finishedOn < t - DayMs

\* Array.prototype.filter with IsOlder
RECURSIVE FilterOlder(_, _)
FilterOlder(js, t) ==
    IF js = <<>> THEN <<>>
    ELSE (IF IsOlder(Head(js), t) THEN <<Head(js)>> ELSE <<>>) \o FilterOlder(Tail(js), t)

\* the handler up to the for loop
CleanList ==
    /\ cpc = "idle"
    /\ before24hJobs' = FilterOlder(completedJobs(0), now)
    /\ cleanAt' = now
    /\ count' = 0
    /\ cpc' = "loop"
    /\ UNCHANGED <<storeVars, cfgVars, workerVars, ledgerVars, handlerVars, clusterVars, notifyVars,
                   now, cleaned>>

\* getJobs rejects: the outer catch, status 500
CleanListThrows ==
    /\ cpc = "idle"
    /\ cpc' = "sent500"
    /\ UNCHANGED <<storeVars, cfgVars, workerVars, ledgerVars, handlerVars, clusterVars, notifyVars,
                   now, before24hJobs, count, cleanAt, cleaned>>

\* one turn of the for loop: await job.remove(); count++ unless it throws
CleanRemove ==
    /\ cpc = "loop"
    /\ before24hJobs # <<>>
    /\ LET job == Head(before24hJobs)
           r == removeJob(St, job.id)
       IN /\ rec' = r.st.rec
          /\ lists' = r.st.lists
          /\ lock' = r.st.lock
          /\ count' = IF r.code = 0 THEN count ELSE count + 1
          /\ cleaned' = IF r.code = 0 THEN cleaned
                        ELSE cleaned \cup {[id |-> job.id, state |-> getState(job.id),
                                            finishedOn |-> rec[job.id].finishedOn]}
    /\ before24hJobs' = Tail(before24hJobs)
    /\ UNCHANGED <<paused, gens, cfgVars, workerVars, ledgerVars, handlerVars, clusterVars, notifyVars,
                   now, cpc, cleanAt>>

\* res.status(200).send(`Removed ${count} completed jobs.`)
CleanRespond ==
    /\ cpc = "loop"
    /\ before24hJobs = <<>>
    /\ cpc' = "sent200"
    /\ UNCHANGED <<storeVars, cfgVars, workerVars, ledgerVars, handlerVars, clusterVars, notifyVars,
                   now, before24hJobs, count, cleanAt, cleaned>>

\* ------------------------------------------ GET /serverHealthCheck/notify
NoBody == "no response"

\* webScraperQueue.getWaitingCount()
getWaitingCount == Cardinality({ j \in JobIds : "wait" \in lists[j] })

\* the handler up to the call of checkWaitingJobs; without
\* SLACK_WEBHOOK_URL the body of the handler is skipped
NotifyRequest ==
    /\ npc = "idle"
    /\ IF slackUrl
       THEN /\ nres' = "Check initiated"
            /\ npc' = "check"
       ELSE /\ npc' = "ended"
            /\ UNCHANGED nres
    /\ UNCHANGED <<storeVars, cfgVars, workerVars, ledgerVars, handlerVars, clusterVars, cleanVars,
                   slackUrl, counts, alert>>

\* checkWaitingJobs: the first count; at or above treshold it arms the timer
NotifyCheck ==
    /\ npc = "check"
    /\ counts' = Append(counts, getWaitingCount)
    /\ npc' = IF getWaitingCount >= treshold THEN "timer" ELSE "ended"
    /\ UNCHANGED <<storeVars, cfgVars, workerVars, ledgerVars, handlerVars, clusterVars, cleanVars,
                   slackUrl, nres, alert>>

\* getWaitingCount rejects in checkWaitingJobs (caught, logged) or in the
\* timer callback (unhandled)
NotifyCountThrows ==
    /\ npc \in {"check", "recheck"}
    /\ npc' = "ended"
    /\ UNCHANGED <<storeVars, cfgVars, workerVars, ledgerVars, handlerVars, clusterVars, cleanVars,
                   slackUrl, nres, counts, alert>>

\* the timer fires after timeout milliseconds
NotifyTimeout ==
    /\ npc = "timer"
    /\ now' = now + timeout
    /\ npc' = "recheck"
    /\ UNCHANGED <<storeVars, cfgVars, workerVars, ledgerVars, handlerVars, clusterVars,
                   cpc, before24hJobs, count, cleanAt, cleaned,
                   slackUrl, nres, counts, alert>>

\* the timer callback: the second count; at or above treshold it posts to
\* the webhook, whose answer may be not ok
NotifyReCheck ==
    /\ npc = "recheck"
    /\ counts' = Append(counts, getWaitingCount)
    /\ IF getWaitingCount >= treshold
       THEN \E ok \in BOOLEAN : alert' = IF ok THEN "delivered" ELSE "not ok"
       ELSE UNCHANGED alert
    /\ npc' = "ended"
    /\ UNCHANGED <<storeVars, cfgVars, workerVars, ledgerVars, handlerVars, clusterVars, cleanVars,
                   slackUrl, nres>>

\* ------------------------------------------------------- specifications
InitNotify ==
    /\ npc = "idle"
    /\ nres = NoBody
    /\ counts = <<>>
    /\ alert = "none"

InitClean ==
    /\ now = StartTime
    /\ cpc = "idle"
    /\ before24hJobs = <<>>
    /\ count = 0
    /\ cleanAt = 0
    /\ cleaned = {}

\* finish times around the 24 hour line
FinishTimes == { StartTime - DayMs - 1, StartTime - DayMs, StartTime - DayMs + 1 }

\* a store holding jobs in every state, the finished ones with a finish time
InitStoreFinished ==
    /\ \E st \in [JobIds -> {"wait", "active", "completed", "failed"}],
          ft \in [JobIds -> FinishTimes] :
        /\ lists = [j \in JobIds |-> {st[j]}]
        /\ rec = [j \in JobIds |->
                   [NewRec(JobData(j), 1) EXCEPT
                      !.finishedOn = IF st[j] \in {"completed", "failed"} THEN ft[j] ELSE 0,
                      !.returnvalue = IF st[j] = "completed" THEN <<>> ELSE NoVal,
                      !.failedReason = IF st[j] = "failed" THEN "pipeline error" ELSE NoReason,
                      !.rgen = IF st[j] \in {"completed", "failed"} THEN 1 ELSE 0]]
        /\ lock = [j \in JobIds |-> IF st[j] = "active" THEN "w2" ELSE NoLock]
    /\ paused = FALSE
    /\ gens = [j \in JobIds |-> 1]

\* the primary has run its fork loop: numCPUs workers
InitCluster ==
    /\ live = numCPUs
    /\ exitEvents = <<>>
    /\ exited = <<>>

InitStore ==
    /\ rec = [j \in JobIds |-> NewRec(JobData(j), 1)]
    /\ lists = [j \in JobIds |-> {"wait"}]
    /\ lock = [j \in JobIds |-> NoLock]
    /\ paused = FALSE
    /\ gens = [j \in JobIds |-> 1]

InitWorkers ==
    /\ pc = [w \in Workers |-> "idle"]
    /\ cur = [w \in Workers |-> [id |-> 0, gen |-> 0, data |-> NoData]]
    /\ docs = [w \in Workers |-> <<>>]
    /\ pipe = [w \in Workers |-> "none"]
    /\ partialDocs = [w \in Workers |-> <<>>]
    /\ filteredDocs = [w \in Workers |-> <<>>]
    /\ chan = [w \in Workers |-> <<>>]
    /\ save = [w \in Workers |-> "none"]
    /\ ret = [w \in Workers |-> NoRet]
    /\ billCalls = [w \in Workers |-> 0]
    /\ called = [w \in Workers |-> <<>>]
    /\ issued = [w \in Workers |-> <<>>]
    /\ applied = [w \in Workers |-> <<>>]
    /\ billed = [w \in Workers |-> <<>>]

InitHandler ==
    /\ hpc = "idle"
    /\ jobs = {}
    /\ hstep = [j \in JobIds |-> "none"]
    /\ resub = {}
    /\ res = NoRes

Init ==
    /\ InitStore
    /\ InitWorkers
    /\ InitHandler
    /\ InitCluster
    /\ InitClean
    /\ InitNotify
    /\ slackUrl = FALSE
    /\ useDb \in BOOLEAN
    /\ checksActive \in BOOLEAN

Next ==
    \/ \E w \in Workers : Dispatch(w)
    \/ \E w \in Workers : PipelineEmits(w, {<<"x">>}, MaxDocs)
    \/ \E w \in Workers : PipelineThrows(w)
    \/ \E w \in Workers : PipelineResolves(w)
    \/ \E w \in Workers : billTeamOk(w)
    \/ \E w \in Workers : billTeamRejects(w)
    \/ \E w \in Workers : billTeamThrows(w)
    \/ \E w \in Workers : saveJobAfterUpdate(w)
    \/ \E w \in Workers : Apply(w)
    \/ Shutdown
    \/ UnpauseGetActive
    \/ \E j \in JobIds : UnpauseDelLock(j)
    \/ \E j \in JobIds : UnpauseTakeLock(j)
    \/ \E j \in JobIds : UnpauseMoveToFailed(j)
    \/ \E j \in JobIds : UnpauseRemove(j)
    \/ UnpauseAddBulk
    \/ UnpauseResume
    \/ UnpauseRespond

Spec == Init /\ [][Next]_vars

\* the store after worker process w2 took job 2 and died: the job is still
\* in the active list, its lock key held by w2's token or already expired
InitStoreOrphan ==
    /\ rec = [j \in JobIds |-> NewRec(JobData(j), 1)]
    /\ lists = [j \in JobIds |-> IF j = 2 THEN {"active"} ELSE {"wait"}]
    /\ \E t \in {"w2", NoLock} : lock = [j \in JobIds |-> IF j = 2 THEN t ELSE NoLock]
    /\ paused \in BOOLEAN
    /\ gens = [j \in JobIds |-> 1]

InitAdmin ==
    /\ InitStoreOrphan
    /\ InitWorkers
    /\ InitHandler
    /\ InitCluster
    /\ InitClean
    /\ InitNotify
    /\ slackUrl = FALSE
    /\ useDb \in BOOLEAN
    /\ checksActive \in BOOLEAN

\* worker w1 and the admin routes, whose store calls may reject
AdminNext ==
    \/ Dispatch("w1")
    \/ PipelineEmits("w1", {<<"x">>}, MaxDocs)
    \/ PipelineThrows("w1")
    \/ PipelineResolves("w1")
    \/ billTeamOk("w1")
    \/ billTeamRejects("w1")
    \/ billTeamThrows("w1")
    \/ saveJobAfterUpdate("w1")
    \/ Apply("w1")
    \/ Shutdown
    \/ UnpauseGetActive
    \/ \E j \in JobIds : UnpauseDelLock(j)
    \/ \E j \in JobIds : UnpauseTakeLock(j)
    \/ \E j \in JobIds : UnpauseMoveToFailed(j)
    \/ \E j \in JobIds : UnpauseRemove(j)
    \/ UnpauseAddBulk
    \/ UnpauseResume
    \/ UnpauseRespond
    \/ UnpauseGetActiveThrows
    \/ \E j \in JobIds : UnpauseCallbackThrows(j)
    \/ UnpauseAddBulkThrows
    \/ UnpauseResumeThrows
    \/ UnpauseRespondError

SpecAdmin == InitAdmin /\ [][AdminNext]_vars

\* the primary and its worker processes
ClusterNext ==
    \/ \E e \in ExitCauses : WorkerExits(e)
    \/ OnExit

SpecCluster == Init /\ [][ClusterNext]_vars

\* the clean route serves one request over a store of finished jobs
InitCleanRoute ==
    /\ InitStoreFinished
    /\ InitWorkers
    /\ InitHandler
    /\ InitCluster
    /\ InitClean
    /\ InitNotify
    /\ slackUrl = FALSE
    /\ useDb = FALSE
    /\ checksActive = FALSE

CleanNext ==
    \/ Tick
    \/ CleanList
    \/ CleanListThrows
    \/ CleanRemove
    \/ CleanRespond

SpecClean == InitCleanRoute /\ [][CleanNext]_vars

\* one notify request while the workers take the waiting jobs
InitNotifyRoute ==
    /\ InitStore
    /\ InitWorkers
    /\ InitHandler
    /\ InitCluster
    /\ InitClean
    /\ InitNotify
    /\ slackUrl \in BOOLEAN
    /\ useDb \in BOOLEAN
    /\ checksActive \in BOOLEAN

NotifyNext ==
    \/ \E w \in Workers : Dispatch(w)
    \/ NotifyRequest
    \/ NotifyCheck
    \/ NotifyCountThrows
    \/ NotifyTimeout
    \/ NotifyReCheck

SpecNotify == InitNotifyRoute /\ [][NotifyNext]_vars

\* one worker runs one job; no admin request arrives
RunNext ==
    \/ Dispatch("w1")
    \/ PipelineEmits("w1", Contents, MaxRunDocs)
    \/ PipelineThrows("w1")
    \/ PipelineResolves("w1")
    \/ billTeamOk("w1")
    \/ billTeamRejects("w1")
    \/ billTeamThrows("w1")
    \/ saveJobAfterUpdate("w1")
    \/ Apply("w1")

SpecRun == Init /\ [][RunNext]_vars

\* one worker reports a long run of documents
BufNext ==
    \/ Dispatch("w1")
    \/ PipelineEmits("w1", {<<"x">>}, MaxBufDocs)
    \/ Apply("w1")

SpecBuf == Init /\ [][BufNext]_vars

\* ================================================================= claims

IsTerminalOp(op) == op \in {"completed", "failed"}

\* the job worker w runs, and whether the hash under that id is still the
\* record it was handed
JobOf(w) == cur[w].id

\* runWebScraper has returned and nothing it started is still pending
Drained(w) == pc[w] = "returned" /\ chan[w] = <<>> /\ save[w] # "db"

BillingMessage == "Failed to bill team, no subscription was found"

\* ---- lifecycle claims, under Spec

\* C1: in every reachable state a job has a lock if and only if its state is
\* active (the lock key holds one token, so at most one holder at a time).
C1_LockIffActive ==
    \A j \in JobIds : (lock[j] # NoLock) <=> (getState(j) = "active")

\* C2: once a job record is completed or failed, no later step writes its
\* result or moves it: a repeated terminal transition is rejected or a no-op.
C2_ResultWrittenOnce ==
    [][\A j \in JobIds :
        (/\ rec[j].exists
         /\ getState(j) \in {"completed", "failed"}
         /\ rec'[j].exists
         /\ rec'[j].gen = rec[j].gen)
        => /\ rec'[j].returnvalue = rec[j].returnvalue
           /\ rec'[j].failedReason = rec[j].failedReason
           /\ lists'[j] = lists[j]]_vars

\* C3: when /unpause has finished, every job it listed as active has had its
\* old record removed and a new record with the same id and payload exists,
\* waiting (or already handed to a worker after the resume), and the worker
\* that ran the old record does not hold the lock.
C3_ReclaimRequeues ==
    hpc = "respond" =>
        \A x \in jobs :
            /\ rec[x.id].exists
            /\ rec[x.id].gen > x.gen
            /\ rec[x.id].data = x.data
            /\ \/ getState(x.id) = "waiting"
               \/ \E w \in Workers : cur[w].id = x.id /\ cur[w].gen = rec[x.id].gen
            /\ \A w \in Workers :
                   (cur[w].id = x.id /\ cur[w].gen = x.gen) => lock[x.id] # w

\* C10: a record's progress and result are only ever written on behalf of
\* that record: a worker still running the record that /unpause removed
\* changes nothing of the record re-added under the same id.
C10_StaleWorkerCannotWrite ==
    \A j \in JobIds :
        (rec[j].exists /\ rec[j].gen > 0) =>
            /\ rec[j].pgen \in {0, rec[j].gen}
            /\ rec[j].rgen \in {0, rec[j].gen}

\* ---- single-run claims, under SpecRun

\* C4: every run that has returned has moved its job to a terminal state:
\* completed with the filtered documents when it returned success, failed
\* with the error as the result when it returned failure.
C4_ReturnedIsTerminal ==
    \A w \in Workers :
        Drained(w) =>
            IF ret[w].success
            THEN /\ getState(JobOf(w)) = "completed"
                 /\ rec[JobOf(w)].returnvalue = ret[w].docs
            ELSE /\ getState(JobOf(w)) = "failed"
                 /\ rec[JobOf(w)].failedReason = ret[w].message

\* C5: when billTeam returns a non-success result the run returns
\* success: false, the job ends failed with the billing reason as result,
\* and the run never requests the completed transition.
C5_BillingRejectionFails ==
    \A w \in Workers :
        (Drained(w) /\ ret[w].message = BillingMessage) =>
            /\ ~ret[w].success
            /\ ~Called(w, "onSuccess")
            /\ getState(JobOf(w)) = "failed"
            /\ rec[JobOf(w)].failedReason = BillingMessage

\* C6 as stated: every run that has returned has called billTeam exactly once.
C6_BilledExactlyOnce ==
    \A w \in Workers : pc[w] = "returned" => billCalls[w] = 1

\* C6 as amended: billTeam is called at most once per run and never again:
\* exactly once when getDocuments resolved with at least one document, on
\* the filtered set and before onSuccess requests the completed transition;
\* not at all when it resolved with no document or threw.
C6_BilledOnceIffDocuments ==
    \A w \in Workers :
        /\ billCalls[w] <= 1
        /\ billCalls[w] = 1 => (pipe[w] = "resolved" /\ Len(docs[w]) > 0)
        /\ pc[w] = "returned" =>
               (billCalls[w] = 1 <=> (pipe[w] = "resolved" /\ Len(docs[w]) > 0))
        /\ pc[w] = "bill" =>
               (/\ billCalls[w] = 0
                /\ filteredDocs[w] = FilterDocs(docs[w], cur[w].data.returnOnlyUrls)
                /\ \A i \in 1..Len(issued[w]) : ~IsTerminalOp(issued[w][i][1]))
        /\ Called(w, "onSuccess") => billCalls[w] = 1

C6_Witness ==
    \E w \in Workers :
        /\ pc[w] = "returned"
        /\ billCalls[w] = 1
        /\ Called(w, "onSuccess")
        /\ Len(docs[w]) >= 2

\* C7: a run whose getDocuments resolves with zero documents returns
\* success: true with no documents and never calls onError / moveToFailed.
C7_EmptyCrawlSucceeds ==
    \A w \in Workers :
        (pipe[w] = "resolved" /\ Len(docs[w]) = 0) =>
            /\ pc[w] = "returned"
            /\ ret[w].success
            /\ ret[w].docs = <<>>
            /\ ~Called(w, "onError")
            /\ \A i \in 1..Len(issued[w]) : issued[w][i][1] # "failed"

C7_Witness ==
    \E w \in Workers :
        pipe[w] = "resolved" /\ Len(docs[w]) = 0 /\ pc[w] = "returned" /\ ret[w].success

\* C9: the store applies a run's progress updates in the order they were
\* emitted, and applies the run's terminal transition only after every
\* progress update of the run.
C9_ProgressThenTerminal ==
    \A w \in Workers :
        /\ \A i, k \in 1..Len(applied[w]) :
               (i < k /\ applied[w][i][1] = "progress" /\ applied[w][k][1] = "progress")
                   => applied[w][i][2] < applied[w][k][2]
        /\ \A i \in 1..Len(applied[w]) :
               IsTerminalOp(applied[w][i][1]) =>
                   \A k \in 1..Len(issued[w]) :
                       issued[w][k][1] = "progress" =>
                           \E m \in 1..(i - 1) : applied[w][m] = issued[w][k]

C9_Witness ==
    \E w \in Workers :
        /\ Len(applied[w]) >= 3
        /\ IsTerminalOp(applied[w][Len(applied[w])][1])
        /\ applied[w][1][1] = "progress"
        /\ applied[w][2][1] = "progress"

\* ---- progress buffer claim, under SpecBuf

\* C8: after n documents partialDocs holds exactly the most recent
\* min(n, 50) of them in emission order, and no value sent to or stored by
\* job.progress is longer than 50.
C8_BufferHoldsLast50 ==
    \A w \in Workers :
        LET n == Len(docs[w])
            m == Min(n, 50)
        IN /\ Len(partialDocs[w]) = m
           /\ \A i \in 1..m : partialDocs[w][i] = docs[w][n - m + i]
           /\ \A i \in 1..Len(chan[w]) :
                  chan[w][i].op = "progress" => Len(chan[w][i].val) <= 50
           /\ \A j \in JobIds :
                  rec[j].progress # NoVal => Len(rec[j].progress) <= 50

C8_Witness ==
    \E w \in Workers :
        /\ Len(docs[w]) = 51
        /\ Len(partialDocs[w]) = 50
        /\ partialDocs[w][1] = docs[w][2]
        /\ rec[JobOf(w)].progress = partialDocs[w]

\* ---- C11
InCallback(k) == hstep[k] \in {"del", "takeLock", "moveToFailed", "remove"}

\* C11: an error in the reclamation of one listed job is skipped and does not
\* abort the batch: while another job's callback has thrown, the handler
\* stays in the reclaim phase until every callback has settled, and every
\* callback that does not itself throw still fails its job with
\* "interrupted" and removes its record.
C11_ReclaimErrorSkipped ==
    [][ /\ (hpc' # "reclaim" /\ jobs' # {}) => Settled'
        /\ \A k \in JobIds :
            /\ (InCallback(k) /\ \E j \in JobIds \ {k} : hstep[j] = "threw")
                   => (hpc' = "reclaim" /\ hstep'[k] # "none")
            /\ (hstep[k] = "moveToFailed" /\ hstep'[k] = "remove")
                   => /\ "failed" \in lists'[k]
                      /\ rec'[k].failedReason = "interrupted"
            /\ (hstep[k] = "remove" /\ hstep'[k] = "removed") => ~rec'[k].exists
      ]_vars

\* one callback threw, the other listed job was failed and removed, and the
\* handler went on to addBulk
C11_Witness ==
    /\ hpc = "resume"
    /\ \E j, k \in Listed : hstep[j] = "threw" /\ hstep[k] = "removed"

\* ---- C12
RECURSIVE CountSignalled(_)
CountSignalled(es) ==
    IF es = <<>> THEN 0
    ELSE (IF Head(es).hasCode THEN 0 ELSE 1) + CountSignalled(Tail(es))

\* C12: once the primary has handled every 'exit' event, the number
\* of live workers is numCPUs again, whatever ended the workers.
C12_PoolRestored ==
    exitEvents = <<>> => live = numCPUs

\* what the exit handler does keep: a worker that exits with a code, zero or
\* not, is replaced; a worker ended by a signal is not, so once every 'exit'
\* event is handled the pool is numCPUs less the workers ended by a signal.
PoolRestoredUnlessSignalled ==
    exitEvents = <<>> => live = numCPUs - CountSignalled(exited)

\* workers have exited with code 0, with code 1 and by signal, and every
\* event has been handled
PoolWitness ==
    /\ exitEvents = <<>>
    /\ \E i, j, k \in 1..Len(exited) :
        /\ exited[i].hasCode /\ exited[i].code = 0
        /\ exited[j].hasCode /\ exited[j].code = 1
        /\ ~exited[k].hasCode

\* ---- C13
\* C13: the clean route removes only completed jobs whose finish time is
\* strictly more than 24 hours before the time of the call; a job finished
\* exactly 24 hours before or later, and a job in any other state, keeps its
\* record and its list.
C13_RemovesOnlyOlderCompleted ==
    [][ /\ \A c \in cleaned' :
            /\ c.state = "completed"
            /\ c.finishedOn < cleanAt' - DayMs
        /\ \A j \in JobIds :
            (getState(j) # "completed" \/ rec[j].finishedOn >= cleanAt' - DayMs)
                => rec'[j] = rec[j] /\ lists'[j] = lists[j] /\ lock'[j] = lock[j]
      ]_vars

\* the request is answered, a job older than 24 hours was removed and a
\* completed job of exactly 24 hours is still there
C13_Witness ==
    /\ cpc = "sent200"
    /\ cleanAt = StartTime
    /\ count = 1
    /\ \E j \in JobIds :
        /\ getState(j) = "completed"
        /\ rec[j].finishedOn = cleanAt - DayMs

\* ---- C14
\* C14: /unpause resumes the queue only after the callback of every listed
\* job has settled and addBulk has been given the replacements; and a worker
\* that acquires a re-added job while the handler still runs finds that the
\* handler has failed and removed the old record of that job.
C14_ResumeAfterReclaim ==
    [][ /\ (paused /\ ~paused') => (hpc = "resume" /\ Settled /\ resub = Listed)
        /\ \A w \in Workers :
            (pc[w] = "idle" /\ pc'[w] = "crawl" /\ cur'[w].gen > 1
               /\ cur'[w].id \in Listed)
              => /\ hstep[cur'[w].id] = "removed"
                 /\ hpc \in {"resume", "respond", "catch"}
      ]_vars

\* the queue was resumed by a request that reclaimed a job, and a worker
\* now runs the re-added job
C14_Witness ==
    /\ hpc = "respond"
    /\ ~paused
    /\ \E w \in Workers :
        /\ pc[w] = "crawl"
        /\ cur[w].gen = 2
        /\ cur[w].id \in Listed
        /\ hstep[cur[w].id] = "removed"

\* ---- C15
\* C15: a request to /serverHealthCheck/notify is answered "Check initiated"
\* before the deferred check reads any count, and an alert is posted only
\* when both the first count and the count after the delay were at or above
\* the threshold.
C15_RespondsThenAlertsOnlyIfBoth ==
    /\ npc # "idle" => nres = "Check initiated"
    /\ alert # "none" =>
          /\ Len(counts) = 2
          /\ counts[1] >= treshold
          /\ counts[2] >= treshold

\* ---- C16
\* the positions of the documents whose content has a non-blank character
TextPositions(ds) ==
    { i \in 1..Len(ds) : \E h \in 1..Len(ds[i].content) : ds[i].content[h] # " " }

C16_WitnessUrls ==
    /\ pc["w1"] = "returned"
    /\ cur["w1"].id = 2
    /\ ret["w1"].docs = << [url |-> <<"a">>], [url |-> <<"b">>] >>
    /\ billed["w1"] = <<2>>

\* ---- C17
\* C17: in one run at most one callback invocation happens among onSuccess
\* and onError, and the run sends at most one request for a terminal
\* transition, never both a completed and a failed one.
C17_OneCallbackPerRun ==
    \A w \in Workers :
        /\ Len(called[w]) <= 1
        /\ Cardinality({ i \in 1..Len(issued[w]) : IsTerminalOp(issued[w][i][1]) }) <= 1

\* billTeam threw after the documents were filtered: onError alone was invoked
C17_Witness ==
    /\ pc["w1"] = "returned"
    /\ billCalls["w1"] = 1
    /\ called["w1"] = <<"onError">>
    /\ ret["w1"].message = "billing error"

\* ---- C18
\* C18: with USE_DB_AUTHENTICATION the run asks for the completed transition
\* only once the docs update has succeeded, and with a null return value;
\* when the update fails the run has returned success: true, sends no
\* terminal request, and its job stays active under the worker's lock.
C18_DbSaveGatesCompletion ==
    \A w \in Workers :
        (useDb /\ pc[w] # "idle") =>
            /\ (\E i \in 1..Len(issued[w]) : issued[w][i][1] = "completed")
                  => save[w] = "done"
            /\ \A i \in 1..Len(chan[w]) :
                  chan[w][i].op = "completed" => chan[w][i].val = NullVal
            /\ getState(JobOf(w)) = "completed" => rec[JobOf(w)].returnvalue = NullVal
            /\ save[w] = "update failed" =>
                  /\ ret[w].success
                  /\ \A i \in 1..Len(issued[w]) : ~IsTerminalOp(issued[w][i][1])
                  /\ getState(JobOf(w)) = "active"
                  /\ lock[JobOf(w)] = w

\* the docs update failed: the run returned success and nothing more is in
\* flight, the job still active
C18_Witness ==
    /\ useDb
    /\ save["w1"] = "update failed"
    /\ ret["w1"].success
    /\ chan["w1"] = <<>>
    /\ getState(JobOf("w1")) = "active"

\* ---- C19
\* C19: once /unpause has called addBulk, the ids it submitted are exactly
\* the ids getActive listed, whether their callbacks removed the old record
\* or threw; so every listed job has been re-submitted under its own id, and
\* none is left with neither a record nor a re-submission.
C19_ResubmitsExactlyListed ==
    hpc \in {"resume", "respond", "catch"} =>
        /\ resub = Listed
        /\ \A x \in jobs :
            /\ hstep[x.id] = "threw" => x.id \in resub
            /\ rec[x.id].exists \/ x.id \in resub

\* a callback threw, the job's old record is still active, and the same id
\* was re-submitted
C19_Witness ==
    /\ hpc = "resume"
    /\ \E x \in jobs :
        /\ hstep[x.id] = "threw"
        /\ x.id \in resub
        /\ rec[x.id].exists
        /\ rec[x.id].gen = x.gen
        /\ getState(x.id) = "active"

\* ---- C20
\* C20: when getActive or addBulk rejects, /unpause answers 500 with an error
\* field and leaves the queue as paused as it was, adding no record; a paused
\* queue is un-paused only by the resume call of an /unpause that got that
\* far, and while it is paused no waiting job becomes active.
C20_FailedUnpauseStaysPaused ==
    [][ /\ (paused /\ ~paused') => (hpc = "resume" /\ hpc' = "respond")
        /\ (hpc # "catch" /\ hpc' = "catch")
              => (paused' = paused /\ rec' = rec /\ lists' = lists /\ gens' = gens)
        /\ (hpc = "catch" /\ hpc' # "catch")
              => /\ res' = [status |-> 500, body |-> "error"]
                 /\ paused' = paused /\ rec' = rec /\ lists' = lists /\ gens' = gens
        /\ paused => \A j \in JobIds :
                        "wait" \in lists[j] => "active" \notin lists'[j]
      ]_vars

\* /unpause answered 500 after its callbacks had removed a job: the queue is
\* still paused and the job has no record
C20_Witness ==
    /\ hpc = "idle"
    /\ res = [status |-> 500, body |-> "error"]
    /\ paused
    /\ \E j \in JobIds : ~rec[j].exists

====
